---- MODULE Spec2Model ----
(***************************************************************************)
(* cloud-init-builder (main.go): the recursive #include: expander.         *)
(*                                                                         *)
(* Text is a sequence of characters.  A character is a one-character       *)
(* string; a file name or a word that no operation of the program looks    *)
(* inside ("foo.txt", "START", "include:") is written as one element and   *)
(* stands for its characters in order.  The characters the program does    *)
(* look for (space, tab, "\r", "\n", "#", "/") are always elements of      *)
(* their own.                                                              *)
(*                                                                         *)
(* A path is a sequence of components, each a Text; an absolute path       *)
(* starts with the component <<"/">>.  The Go call stack of processFile    *)
(* and processIncludePath is the variable stack, one record per active     *)
(* call; ret holds the value a call has just returned to its caller.       *)
(***************************************************************************)
EXTENDS Integers, Sequences, FiniteSets, TLC

VARIABLES
    fs,        \* the file tree: absolute path -> [kind, data, perm, bad]
    argv,      \* os.Args[1:], each argument a path
    pc,        \* main's position: "start", "run", "done", "aborted"
    stack,     \* active calls of processFile / processIncludePath, innermost last
    ret,       \* the (text, error) a call has just returned
    stdout,    \* what the process has written to standard output
    warnings,  \* number of "Warning: Found empty #include directive" lines logged
    fatal,     \* the error log.Fatalf reported, <<>> if none
    exitCode,  \* the process's exit status, -1 while it runs
    pass,      \* 1: the run on the tree as given; 2: the run on its own output
    prev       \* the first run's output, kept for the second

vars == <<fs, argv, pc, stack, ret, stdout, warnings, fatal, exitCode, pass, prev>>

NL == "\n"
CR == "\r"

(***************************************************************************)
(* package strings                                                         *)
(***************************************************************************)

\* unicode.IsSpace, on the characters of the model
IsSpace(c) == c \in {" ", "\t", CR, NL}

RECURSIVE TrimLeftSpace(_)
TrimLeftSpace(s) ==
    IF s # <<>> /\ IsSpace(Head(s)) THEN TrimLeftSpace(Tail(s)) ELSE s

RECURSIVE TrimRightSpace(_)
TrimRightSpace(s) ==
    IF s # <<>> /\ IsSpace(s[Len(s)])
    THEN TrimRightSpace(SubSeq(s, 1, Len(s) - 1))
    ELSE s

\* strings.TrimSpace
TrimSpace(s) == TrimRightSpace(TrimLeftSpace(s))

\* strings.HasPrefix
HasPrefix(s, prefix) ==
    Len(s) >= Len(prefix) /\ SubSeq(s, 1, Len(prefix)) = prefix

\* strings.TrimPrefix
TrimPrefix(s, prefix) ==
    IF HasPrefix(s, prefix) THEN SubSeq(s, Len(prefix) + 1, Len(s)) ELSE s

\* strings.HasSuffix
HasSuffix(s, suffix) ==
    Len(s) >= Len(suffix)
    /\ SubSeq(s, Len(s) - Len(suffix) + 1, Len(s)) = suffix

\* strings.TrimSuffix: at most one copy of suffix is removed
TrimSuffix(s, suffix) ==
    IF HasSuffix(s, suffix) THEN SubSeq(s, 1, Len(s) - Len(suffix)) ELSE s

\* strings.TrimRight(s, cutset): every trailing character of cutset is removed
RECURSIVE TrimRight(_, _)
TrimRight(s, cutset) ==
    IF s # <<>> /\ s[Len(s)] \in cutset
    THEN TrimRight(SubSeq(s, 1, Len(s) - 1), cutset)
    ELSE s

\* strings.Index(s, c) for a one-character c: 0-based, -1 when c is absent
Index(s, c) ==
    IF \E i \in 1..Len(s) : s[i] = c
    THEN (CHOOSE i \in 1..Len(s) : s[i] = c /\ \A j \in 1..(i - 1) : s[j] # c) - 1
    ELSE -1

(***************************************************************************)
(* package bufio: a Scanner with the default split function ScanLines      *)
(***************************************************************************)

\* bufio.dropCR: one trailing "\r" is dropped
dropCR(data) ==
    IF data # <<>> /\ data[Len(data)] = CR
    THEN SubSeq(data, 1, Len(data) - 1)
    ELSE data

\* The lines scanner.Scan()/scanner.Text() deliver for data: split at each "\n",
\* a final line without "\n" counts when it is not empty, nothing follows the
\* last "\n".
RECURSIVE ScanLines(_)
ScanLines(data) ==
    IF data = <<>> THEN <<>>
    ELSE LET i == Index(data, NL) IN
         IF i >= 0
         THEN <<dropCR(SubSeq(data, 1, i))>>
              \o ScanLines(SubSeq(data, i + 2, Len(data)))
         ELSE <<dropCR(data)>>

(***************************************************************************)
(* package path/filepath                                                   *)
(***************************************************************************)

Slash  == <<"/">>
Dot    == <<".">>
DotDot == <<"..">>

IsAbs(p) == p # <<>> /\ p[1] = Slash

RECURSIVE CleanFrom(_, _)
CleanFrom(acc, rest) ==
    IF rest = <<>> THEN acc
    ELSE LET c == Head(rest) IN
         CleanFrom(
            IF c = <<>> \/ c = Dot THEN acc
            ELSE IF c = DotDot
                 THEN IF acc = <<>> \/ acc[Len(acc)] = DotDot
                      THEN Append(acc, DotDot)
                      ELSE IF acc = <<Slash>> THEN acc
                           ELSE SubSeq(acc, 1, Len(acc) - 1)
                 ELSE Append(acc, c),
            Tail(rest))

\* filepath.Clean on a path already split into components; "." is <<>>
Clean(p) ==
    IF IsAbs(p) THEN CleanFrom(<<Slash>>, Tail(p)) ELSE CleanFrom(<<>>, p)

\* The components of a path written as text: split at every "/"
RECURSIVE SplitPath(_)
SplitPath(s) ==
    LET i == Index(s, "/") IN
    IF i >= 0
    THEN <<SubSeq(s, 1, i)>> \o SplitPath(SubSeq(s, i + 2, Len(s)))
    ELSE <<s>>

\* filepath.Join(dir, elem) where elem is text: the non-empty elements are
\* joined with a separator and the result is cleaned
Join(dir, elem) == Clean(dir \o SplitPath(elem))

\* filepath.Dir of a clean path
Dir(p) ==
    IF p = <<>> \/ p = <<Slash>> THEN p ELSE SubSeq(p, 1, Len(p) - 1)

\* filepath.ToSlash applied to the printed path: the text of a path
RECURSIVE JoinSlash(_)
JoinSlash(p) ==
    IF p = <<>> THEN <<>>
    ELSE IF Len(p) = 1 THEN p[1]
    ELSE p[1] \o <<"/">> \o JoinSlash(Tail(p))

ToSlash(p) ==
    IF p = <<>> THEN <<".">>
    ELSE IF IsAbs(p) THEN <<"/">> \o JoinSlash(Tail(p))
    ELSE JoinSlash(p)

\* filepath.Rel(basepath, targpath): [ok, path].  It fails when one path is
\* absolute and the other is not (the working directory would be needed), and
\* when the base has a ".." component the target does not share.
RECURSIVE CommonPrefixLen(_, _)
CommonPrefixLen(a, b) ==
    IF a # <<>> /\ b # <<>> /\ Head(a) = Head(b)
    THEN 1 + CommonPrefixLen(Tail(a), Tail(b))
    ELSE 0

Rel(basepath, targpath) ==
    LET base == Clean(basepath)
        targ == Clean(targpath)
        n    == CommonPrefixLen(base, targ)
        up   == [i \in 1..(Len(base) - n) |-> DotDot]
    IN  IF base = targ THEN [ok |-> TRUE, path |-> <<>>]
        ELSE IF IsAbs(base) # IsAbs(targ) THEN [ok |-> FALSE, path |-> <<>>]
        ELSE IF n < Len(base) /\ base[n + 1] = DotDot
             THEN [ok |-> FALSE, path |-> <<>>]
        ELSE [ok |-> TRUE, path |-> up \o SubSeq(targ, n + 1, Len(targ))]

(***************************************************************************)
(* The file tree and the operating system's view of it                     *)
(***************************************************************************)

N(name) == <<name>>

\* the process's working directory
Cwd == <<Slash, N("work")>>

\* filepath.Abs
Abs(p) == IF IsAbs(p) THEN Clean(p) ELSE Clean(Cwd \o p)

\* os.Stat succeeds
Exists(p) == Abs(p) \in DOMAIN fs

IsDir(p) == Exists(p) /\ fs[Abs(p)].kind = "dir"

\* os.Open is permitted: the file or directory is there and may be read (a
\* directory without the permission may still be searched: its entries can
\* be reached by name, its names cannot be listed)
CanOpen(p) == Exists(p) /\ fs[Abs(p)].perm

\* reading the opened file ends in an error (scanner.Err() # nil): a read
\* from a directory, an I/O error or a line past the scanner's buffer
ReadFails(p) == fs[Abs(p)].kind = "dir" \/ fs[Abs(p)].bad

\* the lines the scanner delivers before the file ends or the read fails
FileLines(p) ==
    IF fs[Abs(p)].kind = "dir" THEN <<>> ELSE ScanLines(fs[Abs(p)].data)

\* sort.Strings on the names of the model: byte order
NameOrder ==
    <<"a.yaml", "b.yaml", "cloud-init.tmpl.yaml", "empty", "foo.txt",
      "notes.txt", "parts", "site", "sub", "work", "z.yaml">>

Rank(name) == CHOOSE i \in 1..Len(NameOrder) : NameOrder[i] = name[1]

RECURSIVE SortNames(_)
SortNames(S) ==
    IF S = {} THEN <<>>
    ELSE LET m == CHOOSE x \in S : \A y \in S : Rank(x) <= Rank(y)
         IN  <<m>> \o SortNames(S \ {m})

\* filepath.readDirNames: the sorted names of a directory's entries
readDirNames(dir) ==
    SortNames({q[Len(q)] : q \in {a \in DOMAIN fs :
                  Len(a) = Len(Abs(dir)) + 1
                  /\ SubSeq(a, 1, Len(a) - 1) = Abs(dir)}})

\* WalkEntries without the sub-directories
WalkEntriesFilesOnly(dir) ==
    LET names == readDirNames(dir)
        IsFileName(n) == ~IsDir(Append(dir, n))
        files == SelectSeq(names, IsFileName)
    IN  [i \in 1..Len(files) |-> Append(dir, files[i])]

\* filepath.walk on a directory whose names could be read: the paths it goes
\* on to, Join(path, name) for each name in sorted order
WalkEntries(dir) ==
    LET names == readDirNames(dir) IN
    [i \in 1..Len(names) |-> Append(dir, names[i])]

(***************************************************************************)
(* main.go: the text operations of processFile                             *)
(***************************************************************************)

\* the directive prefix "#include:"
IncludePrefix == <<"#", "include:">>

\* the root file's name, "cloud-init.tmpl.yaml"
RootFileName == <<"cloud-init.tmpl.yaml">>

\* IsDirective with the test made on the line as read, not on the trimmed line
IsDirectiveUntrimmed(line) == HasPrefix(line, IncludePrefix)

\* strings.HasPrefix(trimmedLine, "#include:")
IsDirective(line) == HasPrefix(TrimSpace(line), IncludePrefix)

\* indentation := line[:strings.Index(line, "#")]
Indentation(line) == SubSeq(line, 1, Index(line, "#"))

\* includePathStr := strings.TrimSpace(strings.TrimPrefix(trimmedLine, "#include:"))
IncludePathStr(line) == TrimSpace(TrimPrefix(TrimSpace(line), IncludePrefix))

\* fullIncludePath := filepath.Join(filepath.Dir(filePath), includePathStr)
FullIncludePath(filePath, includePathStr) == Join(Dir(filePath), includePathStr)

\* relativePath: filepath.Rel(rootDir, absPath), or filePath when Rel fails
RelativePath(filePath, rootDir) ==
    LET r == Rel(rootDir, Abs(filePath)) IN
    IF r.ok THEN r.path ELSE filePath

\* fmt.Sprintf("# START %s\n", filepath.ToSlash(relativePath))
StartMarker(relativePath) ==
    <<"#", " ", "START", " ">> \o ToSlash(relativePath) \o <<NL>>

\* fmt.Sprintf("\n# END %s\n", filepath.ToSlash(relativePath))
EndMarker(relativePath) ==
    <<NL, "#", " ", "END", " ">> \o ToSlash(relativePath) \o <<NL>>

\* IndentLines with a second newline written after each line
RECURSIVE IndentLinesTwoNewlines(_, _)
IndentLinesTwoNewlines(indentation, lines) ==
    IF lines = <<>> THEN <<>>
    ELSE indentation \o Head(lines) \o <<NL, NL>>
         \o IndentLinesTwoNewlines(indentation, Tail(lines))

\* the loop over contentScanner: indentation, the line, one newline
RECURSIVE IndentLines(_, _)
IndentLines(indentation, lines) ==
    IF lines = <<>> THEN <<>>
    ELSE indentation \o Head(lines) \o <<NL>>
         \o IndentLines(indentation, Tail(lines))

\* IndentedBlock with the indentation written once, before the whole content
IndentedBlockOnce(indentation, includedContent) ==
    LET contentToIndent == TrimSuffix(includedContent, <<NL>>) IN
    (IF contentToIndent # <<>>
     THEN indentation \o contentToIndent \o <<NL>>
     ELSE <<>>) \o <<NL>>

\* what a directive line adds to the output once its include has returned
\* includedContent: the content less one trailing newline, re-indented line
\* by line (nothing when that is empty), then one newline
IndentedBlock(indentation, includedContent) ==
    LET contentToIndent == TrimSuffix(includedContent, <<NL>>) IN
    (IF contentToIndent # <<>>
     THEN IndentLines(indentation, ScanLines(contentToIndent))
     ELSE <<>>) \o <<NL>>

\* FinalResult with the END marker added for the root file too
FinalResultMarked(output, isRoot, relativePath) ==
    TrimRight(output, {NL}) \o EndMarker(relativePath)

\* FinalResult without the trimming of trailing newlines
FinalResultUntrimmed(output, isRoot, relativePath) ==
    IF isRoot THEN output
    ELSE output \o Tail(EndMarker(relativePath))

\* finalResult: the output, and for an included file the output less all
\* trailing newlines, then the END marker
FinalResult(output, isRoot, relativePath) ==
    IF isRoot THEN output
    ELSE TrimRight(output, {NL}) \o EndMarker(relativePath)

(***************************************************************************)
(* Calls, returns and errors                                               *)
(***************************************************************************)

\* One layer of a wrapped error (fmt.Errorf("...: %w")), outermost first in
\* an error value.  kind is the message: "open" (failed to open file), "read"
\* (error reading file), "include" (error processing include '<incl>' in file
\* <path>), "notfound" (include path not found), "walk" (failed to process
\* file in directory); the cause is the operating system's error.  "readdir"
\* is the operating system's error of listing a directory, which the walk
\* returns without a message of its own.
ErrLayer(kind, path, incl) == [kind |-> kind, path |-> path, incl |-> incl]

NoError == <<>>

\* an active call: processFile(path, rootDir, isRoot) or
\* processIncludePath(path, rootDir)
Call(fn, path, isRoot) ==
    [fn |-> fn, path |-> path, isRoot |-> isRoot,
     pc |-> IF fn = "processFile" THEN "open" ELSE "stat",
     lines |-> <<>>, pos |-> 1, output |-> <<>>,
     indentation |-> <<>>, includePathStr |-> <<>>, todo |-> <<>>]

NoRet ==
    [full |-> FALSE, text |-> <<>>, err |-> NoError,
     fn |-> "", path |-> <<>>, isRoot |-> FALSE]

\* the value call returns: (text, nil) or ("", err)
Returns(call, text, err) ==
    [full |-> TRUE, text |-> text, err |-> err,
     fn |-> call.fn, path |-> call.path, isRoot |-> call.isRoot]

Top == stack[Len(stack)]
Pop == SubSeq(stack, 1, Len(stack) - 1)
SetTop(call) == [stack EXCEPT ![Len(stack)] = call]

\* rootDir := os.Args[1]
RootDir == argv[1]

\* the processFile calls on the stack
Depth == Cardinality({i \in 1..Len(stack) : stack[i].fn = "processFile"})

\* the files the process holds open: one for each processFile call that has
\* opened its file (it is closed when the call returns)
OpenFiles ==
    Cardinality({i \in 1..Len(stack) :
                    stack[i].fn = "processFile" /\ stack[i].pc # "open"})

\* The process has the resources (file descriptors, goroutine stack) for this
\* many nested processFile calls.
MaxDepth == 5

\* no file or directory can be opened beside those held open
OutOfDescriptors == OpenFiles >= MaxDepth

(***************************************************************************)
(* The trees and invocations the model is run on                           *)
(***************************************************************************)

File(data) == [kind |-> "file", data |-> data, perm |-> TRUE, bad |-> FALSE]
Directory  == [kind |-> "dir", data |-> <<>>, perm |-> TRUE, bad |-> FALSE]
Absent     == [kind |-> "none", data |-> <<>>, perm |-> FALSE, bad |-> FALSE]

Work  == Cwd
Site  == Work \o <<N("site")>>
Parts == Site \o <<N("parts")>>
Sub   == Parts \o <<N("sub")>>

RootPath  == Site \o <<RootFileName>>
FooPath   == Site \o <<N("foo.txt")>>
APath     == Parts \o <<N("a.yaml")>>
BPath     == Sub \o <<N("b.yaml")>>
ZPath     == Parts \o <<N("z.yaml")>>
EmptyPath == Site \o <<N("empty")>>
NotesPath == Work \o <<N("notes.txt")>>

RootChoices ==
    { File(<<>>),
      File(<<"#", "cloud-config", NL, "a", NL, NL, " ", "b">>),
      File(<<"a", CR, CR, NL, "b", CR, NL>>),
      File(<<"x", NL, " ", " ", "#", "include:", " ", "foo.txt", NL, "y", NL>>),
      File(<<"#", "include:", NL, "x", NL, "\t", "#", "include:", " ", " ", CR, NL>>),
      File(<<"w", NL, " ", "#", "include:", " ", "parts", "/", NL, "z", NL>>),
      File(<<"a", NL, "#", "include:", " ", "missing.txt", NL, "b", NL>>),
      File(<<"#", "include:", " ", "cloud-init.tmpl.yaml", NL>>),
      File(<<"k", NL, "#", "include:", " ", "empty", NL,
             "#", "include:", " ", "foo.txt">>),
      File(<<"#", "include:", " ", ".", NL>>),
      File(<<"x", " ", "#", "include:", " ", "foo.txt", NL,
             "#", "include:", "foo.txt", NL>>) }

FooChoices ==
    { File(<<"a", NL, "b", NL>>),
      File(<<"a", NL, NL, NL>>),
      File(<<" ", " ", " ", " ", "#", "include:", " ",
             "parts", "/", "sub", "/", "b.yaml", NL>>),
      File(<<"p", NL, " ", " ", "#", "include:", " ", "parts", "/", "a.yaml", NL,
             "q", NL>>),
      File(<<"#", "include:", " ", "cloud-init.tmpl.yaml", NL>>),
      File(<<"p", NL, "#", "include:", " ", "nothing", NL>>),
      File(<<"#", "include:", NL, "q", NL, NL, "#", "include:", " ", NL>>),
      File(<<>>),
      [File(<<"a", NL>>) EXCEPT !.perm = FALSE],
      [File(<<"a", NL>>) EXCEPT !.bad = TRUE],
      File(<<"c", CR, CR, NL>>) }

AChoices ==
    { File(<<"x", ":", " ", "1", NL>>),
      File(<<" ", " ", " ", " ", "#", "include:", " ", "sub", "/", "b.yaml", NL, NL>>),
      File(<<"#", "include:", " ", "..", "/", "foo.txt", NL>>) }

BChoices ==
    { File(<<"c", NL>>),
      File(<<"c", NL, NL, "d">>),
      File(<<"#", "include:", " ", "nope", NL>>) }

ZChoices == { Absent, File(<<"z", NL>>) }

\* parts/sub may be listed, or only searched
SubChoices == { Directory, [Directory EXCEPT !.perm = FALSE] }

Entries(r, f, a, b, z, d) ==
    (Work :> Directory) @@ (Site :> Directory) @@ (Parts :> Directory)
    @@ (Sub :> d) @@ (EmptyPath :> Directory)
    @@ (NotesPath :> File(<<"n", NL>>))
    @@ (RootPath :> r) @@ (FooPath :> f) @@ (APath :> a) @@ (BPath :> b)
    @@ (ZPath :> z)

Tree(r, f, a, b, z, d) ==
    LET e == Entries(r, f, a, b, z, d) IN
    [q \in {x \in DOMAIN e : e[x].kind # "none"} |-> e[q]]

\* the root directory as the command line names it: relative to the working
\* directory, or absolute
GoodArgs == { <<<<N("site")>>>>, <<Site>> }

\* no argument, two arguments, a path that is not there, a file, a directory
\* without the root file
BadArgs ==
    { <<>>, <<<<N("site")>>, <<N("site")>>>>, <<<<N("nowhere")>>>>,
      <<<<N("notes.txt")>>>>, <<<<N("site"), N("parts")>>>> }

DefaultTree ==
    Tree(File(<<"a", NL>>), File(<<"a", NL, "b", NL>>), File(<<"x", ":", " ", "1", NL>>),
         File(<<"c", NL>>), Absent, Directory)

Init ==
    /\ \/ /\ argv \in GoodArgs
          /\ \E r \in RootChoices, f \in FooChoices, a \in AChoices,
                b \in BChoices, z \in ZChoices, d \in SubChoices :
                fs = Tree(r, f, a, b, z, d)
       \/ /\ argv \in BadArgs
          /\ fs = DefaultTree
    /\ pc = "start"
    /\ stack = <<>>
    /\ ret = NoRet
    /\ stdout = <<>>
    /\ warnings = 0
    /\ fatal = NoError
    /\ exitCode = -1
    /\ pass = 1
    /\ prev = <<>>

(***************************************************************************)
(* main                                                                    *)
(***************************************************************************)

UsageText ==
    <<"Usage: expander.exe <directory>", NL, NL, "Press Enter to exit...", NL>>

Exit(code, out, err) ==
    /\ pc' = "done"
    /\ exitCode' = code
    /\ stdout' = out
    /\ fatal' = err
    /\ ret' = NoRet
    /\ UNCHANGED <<fs, argv, stack, warnings, pass, prev>>

\* len(os.Args) != 2: the usage goes to standard output, the error line to
\* standard error, and the program waits for a line on standard input
MainUsage ==
    /\ pc = "start"
    /\ Len(argv) # 1
    /\ pc' = "pause"
    /\ stdout' = UsageText
    /\ fatal' = <<ErrLayer("usage", <<>>, <<>>)>>
    /\ UNCHANGED <<fs, argv, stack, ret, warnings, exitCode, pass, prev>>

\* a line, or the end of standard input, arrives: exit status 1
MainUsageExit ==
    /\ pc = "pause"
    /\ Exit(1, stdout, fatal)

\* os.Stat(rootDir) fails
MainNoDirectory ==
    /\ pc = "start"
    /\ Len(argv) = 1
    /\ ~Exists(RootDir)
    /\ Exit(1, <<>>, <<ErrLayer("cannot access directory", RootDir, <<>>)>>)

\* rootDir is not a directory
MainNotDirectory ==
    /\ pc = "start"
    /\ Len(argv) = 1
    /\ Exists(RootDir) /\ ~IsDir(RootDir)
    /\ Exit(1, <<>>, <<ErrLayer("not a directory", RootDir, <<>>)>>)

\* os.Stat(initialFilePath) fails
MainNoRootFile ==
    /\ pc = "start"
    /\ Len(argv) = 1
    /\ IsDir(RootDir)
    /\ ~Exists(Join(RootDir, RootFileName))
    /\ Exit(1, <<>>, <<ErrLayer("root file not found", RootDir, <<>>)>>)

\* processFile(initialFilePath, rootDir, true) is called
MainCall ==
    /\ pc = "start"
    /\ Len(argv) = 1
    /\ IsDir(RootDir)
    /\ Exists(Join(RootDir, RootFileName))
    /\ pc' = "run"
    /\ stack' = <<Call("processFile", Join(RootDir, RootFileName), TRUE)>>
    /\ UNCHANGED <<fs, argv, ret, stdout, warnings, fatal, exitCode, pass, prev>>

\* processFile returned an error: log.Fatalf, exit status 1
MainFatal ==
    /\ pc = "run" /\ stack = <<>> /\ ret.full
    /\ ret.err # NoError
    /\ Exit(1, stdout, <<ErrLayer("failed to expand", <<>>, <<>>)>> \o ret.err)

\* fmt.Print(finalContent), exit status 0
MainPrint ==
    /\ pc = "run" /\ stack = <<>> /\ ret.full
    /\ ret.err = NoError
    /\ Exit(0, stdout \o ret.text, NoError)

(***************************************************************************)
(* processFile                                                             *)
(***************************************************************************)

\* the call on top of the stack returns (text, err) to its caller
Return(text, err) ==
    /\ stack' = Pop
    /\ ret' = Returns(Top, text, err)
    /\ UNCHANGED <<fs, argv, pc, stdout, warnings, fatal, exitCode, pass, prev>>

\* the call on top of the stack goes on as call, having taken what ret held
Continue(call) ==
    /\ stack' = SetTop(call)
    /\ ret' = NoRet
    /\ UNCHANGED <<fs, argv, pc, stdout, warnings, fatal, exitCode, pass, prev>>

InProcessFile(at) ==
    /\ pc = "run" /\ stack # <<>>
    /\ Top.fn = "processFile" /\ Top.pc = at

\* the scanner has a line left, and it is line
AtLine == Top.pos <= Len(Top.lines)
Line   == Top.lines[Top.pos]

\* os.Open fails: the file cannot be opened, or the process is out of file
\* descriptors
PFOpenFail ==
    /\ InProcessFile("open")
    /\ ~CanOpen(Top.path) \/ OutOfDescriptors
    /\ Return(<<>>, <<ErrLayer("open", Top.path, <<>>)>>)

\* the file is opened, the START marker written for an included file, and the
\* scanner set on the file
PFOpen ==
    /\ InProcessFile("open")
    /\ CanOpen(Top.path) /\ ~OutOfDescriptors
    /\ Continue([Top EXCEPT
          !.pc = "scan",
          !.lines = FileLines(Top.path),
          !.output = IF Top.isRoot THEN <<>>
                     ELSE StartMarker(RelativePath(Top.path, RootDir))])

\* a line that is no directive is copied with one newline
PFCopyLine ==
    /\ InProcessFile("scan") /\ AtLine
    /\ ~IsDirective(Line)
    /\ Continue([Top EXCEPT !.output = @ \o Line \o <<NL>>, !.pos = @ + 1])

\* PFSkipEmptyInclude with the blank line of a directive written all the same
PFSkipEmptyIncludeBlank ==
    /\ InProcessFile("scan") /\ AtLine
    /\ IsDirective(Line) /\ IncludePathStr(Line) = <<>>
    /\ stack' = SetTop([Top EXCEPT !.output = @ \o <<NL>>, !.pos = @ + 1])
    /\ warnings' = warnings + 1
    /\ UNCHANGED <<fs, argv, pc, ret, stdout, fatal, exitCode, pass, prev>>

\* a directive without a path: a warning is logged and the line skipped
PFSkipEmptyInclude ==
    /\ InProcessFile("scan") /\ AtLine
    /\ IsDirective(Line) /\ IncludePathStr(Line) = <<>>
    /\ stack' = SetTop([Top EXCEPT !.pos = @ + 1])
    /\ warnings' = warnings + 1
    /\ UNCHANGED <<fs, argv, pc, ret, stdout, fatal, exitCode, pass, prev>>

\* a directive: processIncludePath(fullIncludePath, rootDir) is called
PFCallInclude ==
    /\ InProcessFile("scan") /\ AtLine
    /\ IsDirective(Line) /\ IncludePathStr(Line) # <<>>
    /\ stack' = SetTop([Top EXCEPT
                   !.pc = "include",
                   !.indentation = Indentation(Line),
                   !.includePathStr = IncludePathStr(Line)])
               \o <<Call("processIncludePath",
                         FullIncludePath(Top.path, IncludePathStr(Line)), FALSE)>>
    /\ UNCHANGED <<fs, argv, pc, ret, stdout, warnings, fatal, exitCode, pass, prev>>

\* PFIncludeFail with the output so far returned beside the error
PFIncludeFailKeepsText ==
    /\ InProcessFile("include") /\ ret.full
    /\ ret.err # NoError
    /\ Return(Top.output,
              <<ErrLayer("include", Top.path, Top.includePathStr)>> \o ret.err)

\* processIncludePath returned an error: it is wrapped and returned, the
\* output so far dropped
PFIncludeFail ==
    /\ InProcessFile("include") /\ ret.full
    /\ ret.err # NoError
    /\ Return(<<>>, <<ErrLayer("include", Top.path, Top.includePathStr)>> \o ret.err)

\* processIncludePath returned text: it is re-indented and a blank line added
PFIncludeDone ==
    /\ InProcessFile("include") /\ ret.full
    /\ ret.err = NoError
    /\ Continue([Top EXCEPT
          !.pc = "scan",
          !.output = @ \o IndentedBlock(Top.indentation, ret.text),
          !.pos = @ + 1])

\* the scanner stopped on an error
PFReadFail ==
    /\ InProcessFile("scan") /\ ~AtLine
    /\ ReadFails(Top.path)
    /\ Return(<<>>, <<ErrLayer("read", Top.path, <<>>)>>)

\* the file is read to its end: the result is returned
PFReturn ==
    /\ InProcessFile("scan") /\ ~AtLine
    /\ ~ReadFails(Top.path)
    /\ Return(FinalResult(Top.output, Top.isRoot,
                          RelativePath(Top.path, RootDir)), NoError)

(***************************************************************************)
(* processIncludePath                                                      *)
(***************************************************************************)

InProcessIncludePath(at) ==
    /\ pc = "run" /\ stack # <<>>
    /\ Top.fn = "processIncludePath" /\ Top.pc = at

\* os.Stat(path) fails
PIPNotFound ==
    /\ InProcessIncludePath("stat")
    /\ ~Exists(Top.path)
    /\ Return(<<>>, <<ErrLayer("notfound", Top.path, <<>>)>>)

\* a single file: processFile(path, rootDir, false) is called
PIPCallFile ==
    /\ InProcessIncludePath("stat")
    /\ Exists(Top.path) /\ ~IsDir(Top.path)
    /\ stack' = SetTop([Top EXCEPT !.pc = "file"])
               \o <<Call("processFile", Top.path, FALSE)>>
    /\ UNCHANGED <<fs, argv, pc, ret, stdout, warnings, fatal, exitCode, pass, prev>>

\* ... and what it returns is returned as it is
PIPFileReturn ==
    /\ InProcessIncludePath("file") /\ ret.full
    /\ Return(ret.text, ret.err)

\* a directory: filepath.Walk sets out from it
PIPWalk ==
    /\ InProcessIncludePath("stat")
    /\ IsDir(Top.path)
    /\ stack' = SetTop([Top EXCEPT !.pc = "walk", !.todo = <<Top.path>>])
    /\ UNCHANGED <<fs, argv, pc, ret, stdout, warnings, fatal, exitCode, pass, prev>>

\* the walk is at a path, and the path is a directory
AtWalkDir ==
    /\ InProcessIncludePath("walk")
    /\ Top.todo # <<>> /\ IsDir(Head(Top.todo))

\* the walk meets a directory: its names are read (the directory is opened,
\* read and closed) and sorted, walkFn adds nothing for it, and the walk goes
\* on to its entries before what else is left
PIPWalkDir ==
    /\ AtWalkDir
    /\ CanOpen(Head(Top.todo)) /\ ~OutOfDescriptors
    /\ stack' = SetTop([Top EXCEPT
                   !.todo = WalkEntries(Head(Top.todo)) \o Tail(Top.todo)])
    /\ UNCHANGED <<fs, argv, pc, ret, stdout, warnings, fatal, exitCode, pass, prev>>

\* the directory's names cannot be read: walkFn is handed the error and
\* returns it, the walk stops and the error is returned as it is
PIPWalkDirFail ==
    /\ AtWalkDir
    /\ ~CanOpen(Head(Top.todo)) \/ OutOfDescriptors
    /\ Return(<<>>, <<ErrLayer("readdir", Head(Top.todo), <<>>)>>)

\* the walk meets a file: processFile(p, rootDir, false) is called
PIPWalkFile ==
    /\ InProcessIncludePath("walk")
    /\ Top.todo # <<>> /\ ~IsDir(Head(Top.todo))
    /\ stack' = SetTop([Top EXCEPT !.pc = "walkfile"])
               \o <<Call("processFile", Head(Top.todo), FALSE)>>
    /\ UNCHANGED <<fs, argv, pc, ret, stdout, warnings, fatal, exitCode, pass, prev>>

\* the file's content is appended to dirContent and the walk goes on
PIPWalkAppend ==
    /\ InProcessIncludePath("walkfile") /\ ret.full
    /\ ret.err = NoError
    /\ Continue([Top EXCEPT
          !.pc = "walk",
          !.output = @ \o ret.text,
          !.todo = Tail(@)])

\* the file's expansion failed: the walk stops and the error is returned
PIPWalkFail ==
    /\ InProcessIncludePath("walkfile") /\ ret.full
    /\ ret.err # NoError
    /\ Return(<<>>, <<ErrLayer("walk", Head(Top.todo), <<>>)>> \o ret.err)

\* the walk is over: dirContent is returned
PIPWalkReturn ==
    /\ InProcessIncludePath("walk")
    /\ Top.todo = <<>>
    /\ Return(Top.output, NoError)

\* The recursion has used up the process's resources before an open could
\* fail: the Go runtime ends the process (goroutine stack exceeds its limit,
\* or out of memory), exit status 2.
RuntimeAbort ==
    /\ InProcessFile("open") \/ AtWalkDir
    /\ OutOfDescriptors
    /\ pc' = "aborted"
    /\ exitCode' = 2
    /\ UNCHANGED <<fs, argv, stack, ret, stdout, warnings, fatal, pass, prev>>

(***************************************************************************)
(* The user runs the program again on what it printed                      *)
(***************************************************************************)

\* The output of a successful run is saved as the root file and the program
\* started again on the same directory.
Rerun ==
    /\ pc = "done" /\ exitCode = 0 /\ pass = 1
    /\ fs' = [fs EXCEPT ![Abs(Join(RootDir, RootFileName))].data = stdout]
    /\ prev' = stdout
    /\ pass' = 2
    /\ pc' = "start"
    /\ stdout' = <<>>
    /\ warnings' = 0
    /\ exitCode' = -1
    /\ UNCHANGED <<argv, stack, ret, fatal>>

Next ==
    \/ MainUsage \/ MainUsageExit \/ MainNoDirectory \/ MainNotDirectory \/ MainNoRootFile
    \/ MainCall \/ MainFatal \/ MainPrint
    \/ PFOpenFail \/ PFOpen \/ PFCopyLine \/ PFSkipEmptyInclude
    \/ PFCallInclude \/ PFIncludeFail \/ PFIncludeDone
    \/ PFReadFail \/ PFReturn
    \/ PIPNotFound \/ PIPCallFile \/ PIPFileReturn
    \/ PIPWalk \/ PIPWalkDir \/ PIPWalkDirFail \/ PIPWalkFile
    \/ PIPWalkAppend \/ PIPWalkFail \/ PIPWalkReturn
    \/ RuntimeAbort
    \/ Rerun

Spec == Init /\ [][Next]_vars

(***************************************************************************)
(* Vocabulary of the properties                                            *)
(***************************************************************************)

\* the lines of a text, each ended by "\n" (a last line without one counts)
RECURSIVE SplitNL(_)
SplitNL(text) ==
    IF text = <<>> THEN <<>>
    ELSE LET i == Index(text, NL) IN
         IF i >= 0
         THEN <<SubSeq(text, 1, i)>> \o SplitNL(SubSeq(text, i + 2, Len(text)))
         ELSE <<text>>

\* lines written out one after the other, each with one "\n"
RECURSIVE Unlines(_)
Unlines(lines) ==
    IF lines = <<>> THEN <<>> ELSE Head(lines) \o <<NL>> \o Unlines(Tail(lines))

\* the white space a line starts with
LeadingSpace(line) == SubSeq(line, 1, Len(line) - Len(TrimLeftSpace(line)))

\* a directive line: trimmed, it starts with "#include:"
DirectiveLine(line) ==
    LET t == TrimSpace(line) IN Len(t) >= 2 /\ t[1] = "#" /\ t[2] = "include:"

\* a directive line with nothing after "#include:"
EmptyDirectiveLine(line) == TrimSpace(line) = <<"#", "include:">>

\* the path argument of a directive line
DirectiveArg(line) ==
    LET t == TrimSpace(line) IN TrimSpace(SubSeq(t, 3, Len(t)))

PrefixEach(I, lines) == [i \in 1..Len(lines) |-> I \o lines[i]]

IsLineOf(line, text) == \E i \in 1..Len(SplitNL(text)) : SplitNL(text)[i] = line

\* processFile has just returned text without an error
FileReturned == ret.full /\ ret.fn = "processFile" /\ ret.err = NoError

\* the root expansion has just returned text to main
RootReturned == FileReturned /\ ret.isRoot

Succeeded == pc = "done" /\ exitCode = 0 /\ Len(argv) = 1

(***************************************************************************)
(* C7                                                                      *)
(***************************************************************************)

NoDirectiveIn(path) ==
    \A i \in 1..Len(FileLines(path)) : ~DirectiveLine(FileLines(path)[i])

\* C7: for a root file without directive lines the root expansion returns the
\* input verbatim: the file's lines in order, each ended by one "\n", and
\* nothing else; when the file has no "\r" and ends its last line with "\n",
\* the text returned is the file's content character for character.
Thm_C7 ==
    (RootReturned /\ NoDirectiveIn(ret.path)) =>
        LET data == fs[Abs(ret.path)].data IN
        /\ ret.text = Unlines(FileLines(ret.path))
        /\ ((\A i \in 1..Len(data) : data[i] # CR)
             /\ (data = <<>> \/ data[Len(data)] = NL))
           => ret.text = data

Wit_C7 ==
    /\ RootReturned /\ NoDirectiveIn(ret.path)
    /\ pass = 1
    /\ Len(FileLines(ret.path)) >= 4
    /\ ret.text = <<"#", "cloud-config", NL, "a", NL, NL, " ", "b", NL>>

(***************************************************************************)
(* The files below a directory, by their paths                             *)
(***************************************************************************)

\* path a comes before path b: at their first different component, a's name
\* sorts first
PathBefore(a, b) ==
    LET n == CommonPrefixLen(a, b) IN
    n < Len(a) /\ n < Len(b) /\ Rank(a[n + 1]) < Rank(b[n + 1])

RECURSIVE SortPaths(_)
SortPaths(S) ==
    IF S = {} THEN <<>>
    ELSE LET m == CHOOSE x \in S : \A y \in S \ {x} : PathBefore(x, y)
         IN  <<m>> \o SortPaths(S \ {m})

\* every regular file anywhere below dir, each once, as dir followed by the
\* path from dir to the file
FilesBelow(dir) ==
    LET d == Abs(dir) IN
    { dir \o SubSeq(a, Len(d) + 1, Len(a)) :
        a \in { x \in DOMAIN fs : /\ fs[x].kind = "file"
                                  /\ Len(x) > Len(d)
                                  /\ SubSeq(x, 1, Len(d)) = d } }

\* the files a directive line of file stands for, in the order of inclusion
Targets(file, line) ==
    LET t == Join(Dir(file), DirectiveArg(line)) IN
    IF IsDir(t) THEN SortPaths(FilesBelow(t)) ELSE <<t>>

RootFile == Join(RootDir, RootFileName)

\* the path written in the markers of file
MarkerPath(file) == ToSlash(RelativePath(file, RootDir))

StartLine(file) == <<"#", " ", "START", " ">> \o MarkerPath(file)
EndLine(file)   == <<"#", " ", "END", " ">> \o MarkerPath(file)

(***************************************************************************)
(* C1                                                                      *)
(***************************************************************************)

\* the files reached from file through at most n levels of directives, each
\* with the indentation of the directives on the way to it, one after another
RECURSIVE Reach(_, _, _)
Reach(file, I, n) ==
    {<<file, I>>} \cup
    IF n = 0 THEN {}
    ELSE UNION { UNION { Reach(Targets(file, l)[k], I \o LeadingSpace(l), n - 1) :
                           k \in 1..Len(Targets(file, l)) } :
                 l \in { FileLines(file)[i] : i \in
                           { j \in 1..Len(FileLines(file)) :
                               /\ DirectiveLine(FileLines(file)[j])
                               /\ ~EmptyDirectiveLine(FileLines(file)[j]) } } }

\* every non-empty content line of every file reached, and the markers of
\* every included file, stand in the output behind the sum of the indentations
IndentationAdds ==
    Succeeded =>
        \A r \in Reach(RootFile, <<>>, MaxDepth) :
            LET file == r[1]
                I    == r[2]
            IN  /\ \A i \in 1..Len(FileLines(file)) :
                      LET l == FileLines(file)[i] IN
                      (~DirectiveLine(l) /\ l # <<>> /\ l[Len(l)] # CR)
                          => IsLineOf(I \o l, stdout)
                /\ file # RootFile =>
                      /\ IsLineOf(I \o StartLine(file), stdout)
                      /\ IsLineOf(I \o EndLine(file), stdout)

\* when a directive's include returns text, the directive's leading white
\* space I is put before every line of that text (a line ends at "\n" or
\* "\r\n"), and one empty line follows
IndentationStep ==
    (InProcessFile("include") /\ ret.full /\ ret.err = NoError) =>
        LET I == LeadingSpace(Line) IN
        /\ Len(stack') = Len(stack)
        /\ stack'[Len(stack)].output =
              Top.output \o Unlines(PrefixEach(I, ScanLines(ret.text))) \o <<NL>>

\* C1: indentation composes additively: the leading prefix I of a directive
\* line is put before every line of the text returned for its include target
\* (content lines, marker lines, lines indented by deeper directives), so in
\* the final output a line stands behind the indentations of all directives
\* on the way to its file: 2 spaces then 4 spaces give 6.
Thm_C1 == []IndentationAdds /\ [][IndentationStep]_vars

TwoSpaces  == <<" ", " ">>
FourSpaces == <<" ", " ", " ", " ">>

Wit_C1 ==
    /\ Succeeded /\ pass = 1
    /\ <<BPath, TwoSpaces \o FourSpaces>> \in
          { <<Abs(r[1]), r[2]>> : r \in Reach(RootFile, <<>>, MaxDepth) }
    /\ IsLineOf(TwoSpaces \o FourSpaces \o <<"c">>, stdout)
    /\ IsLineOf(TwoSpaces \o FourSpaces \o EndLine(<<N("site"), N("parts"), N("sub"), N("b.yaml")>>),
                stdout)

(***************************************************************************)
(* C2                                                                      *)
(***************************************************************************)

\* the path of file relative to the root directory
RootRelative(file) == ToSlash(Rel(Abs(RootDir), Abs(file)).path)

FirstLine(text) == SplitNL(text)[1]
LastLine(text)  == SplitNL(text)[Len(SplitNL(text))]

StartWord == <<"#", " ", "START", " ">>
EndWord   == <<"#", " ", "END", " ">>

\* the marker lines among lines open and close like brackets; open holds the
\* paths of the markers not yet closed, innermost last
RECURSIVE Nested(_, _)
Nested(lines, open) ==
    IF lines = <<>> THEN open = <<>>
    ELSE LET t == TrimLeftSpace(Head(lines)) IN
         IF HasPrefix(t, StartWord)
         THEN Nested(Tail(lines), Append(open, TrimPrefix(t, StartWord)))
         ELSE IF HasPrefix(t, EndWord)
         THEN /\ open # <<>>
              /\ open[Len(open)] = TrimPrefix(t, EndWord)
              /\ Nested(Tail(lines), SubSeq(open, 1, Len(open) - 1))
         ELSE Nested(Tail(lines), open)

\* an included file's expansion starts with its START line and ends with its
\* END line, both naming the file's root-relative path
MarkersAroundIncluded ==
    (FileReturned /\ ~ret.isRoot) =>
        /\ FirstLine(ret.text) = StartWord \o RootRelative(ret.path)
        /\ LastLine(ret.text) = EndWord \o RootRelative(ret.path)

\* the root expansion puts no marker of its own around its text: no line of
\* it is a marker of the root file
NoMarkersAroundRoot ==
    RootReturned =>
        \A i \in 1..Len(SplitNL(ret.text)) :
            TrimLeftSpace(SplitNL(ret.text)[i]) \notin
                { StartWord \o RootRelative(ret.path), EndWord \o RootRelative(ret.path),
                  StartLine(ret.path), EndLine(ret.path) }

MarkersBalanced == Succeeded => Nested(SplitNL(stdout), <<>>)

\* C2: marker pairs appear only around non-root content: a successful call
\* for an included file returns text whose first line is "# START p" and
\* whose last line is "# END p", p the file's root-relative path; the root
\* call adds no marker; the markers of the final output are balanced and
\* properly nested.
Cex_C2 == MarkersAroundIncluded /\ NoMarkersAroundRoot /\ MarkersBalanced

(***************************************************************************)
(* C3                                                                      *)
(***************************************************************************)

FooArg == <<"foo.txt">>

\* the root call has just replaced a directive line that names foo.txt, which
\* holds the lines a and b; no directive stands before that line
FooIncluded ==
    /\ pc = "run" /\ stack # <<>> /\ ~ret.full
    /\ Top.fn = "processFile" /\ Top.isRoot /\ Top.pc = "scan" /\ Top.pos > 1
    /\ DirectiveLine(Top.lines[Top.pos - 1])
    /\ DirectiveArg(Top.lines[Top.pos - 1]) = FooArg
    /\ \A i \in 1..(Top.pos - 2) : ~DirectiveLine(Top.lines[i])
    /\ CanOpen(FooPath) /\ ~fs[FooPath].bad
    /\ fs[FooPath].data = <<"a", NL, "b", NL>>

LinesBefore == SubSeq(Top.lines, 1, Top.pos - 2)

\* C3 as stated: the directive "  #include: foo.txt" is replaced by exactly
\* "  a\n  b\n\n", without START/END marker lines.
Cex_C3 ==
    (FooIncluded /\ LeadingSpace(Top.lines[Top.pos - 1]) = TwoSpaces) =>
        Top.output = Unlines(LinesBefore)
                     \o <<" ", " ", "a", NL, " ", " ", "b", NL, NL>>

\* C3: a directive line naming foo.txt (the lines a and b), with leading
\* space I, is replaced by the START line of foo.txt, a, b and the END line of
\* foo.txt, each behind I, then exactly one empty line: for two spaces
\* "  # START p\n  a\n  b\n  # END p\n\n", p the marker path of foo.txt.
Thm_C3 ==
    FooIncluded =>
        LET I == LeadingSpace(Top.lines[Top.pos - 1])
            f == Join(Dir(Top.path), FooArg)
        IN  Top.output =
              Unlines(LinesBefore)
              \o I \o StartLine(f) \o <<NL>>
              \o I \o <<"a", NL>>
              \o I \o <<"b", NL>>
              \o I \o EndLine(f) \o <<NL>>
              \o <<NL>>

Wit_C3 ==
    /\ FooIncluded /\ pass = 1
    /\ Top.lines[Top.pos - 1] = <<" ", " ", "#", "include:", " ", "foo.txt">>
    /\ Top.output = <<"x", NL,
                      " ", " ", "#", " ", "START", " ", "foo.txt", NL,
                      " ", " ", "a", NL,
                      " ", " ", "b", NL,
                      " ", " ", "#", " ", "END", " ", "foo.txt", NL,
                      NL>>

(***************************************************************************)
(* C4                                                                      *)
(***************************************************************************)

\* lines less the empty lines at their end
RECURSIVE DropEmptyTail(_)
DropEmptyTail(lines) ==
    IF lines # <<>> /\ lines[Len(lines)] = <<>>
    THEN DropEmptyTail(SubSeq(lines, 1, Len(lines) - 1))
    ELSE lines

\* a line less the "\r" at its end: a line's text apart from its ending
Content(line) == TrimRight(line, {CR})

Contents(lines) == [i \in 1..Len(lines) |-> Content(lines[i])]

\* The lines that account for file's expansion when file holds lines: a line
\* that is no directive is one line; a directive without a path is none; any
\* other directive is the lines of its targets' expansions behind its
\* indentation and one empty line after them.  An included file has its START
\* line before and its END line after; keepTail tells whether the empty lines
\* that end an included file's lines are kept before the END line.
RECURSIVE LinesFor(_, _, _, _)
RECURSIVE LinesForBody(_, _, _)
RECURSIVE LinesForFiles(_, _)

LinesForFiles(files, keepTail) ==
    IF files = <<>> THEN <<>>
    ELSE LinesFor(FileLines(Head(files)), Head(files), FALSE, keepTail)
         \o LinesForFiles(Tail(files), keepTail)

LinesForBody(lines, file, keepTail) ==
    IF lines = <<>> THEN <<>>
    ELSE LET l == Head(lines) IN
         (IF ~DirectiveLine(l) THEN <<l>>
          ELSE IF EmptyDirectiveLine(l) THEN <<>>
          ELSE PrefixEach(LeadingSpace(l),
                          LinesForFiles(Targets(file, l), keepTail)) \o << <<>> >>)
         \o LinesForBody(Tail(lines), file, keepTail)

LinesFor(lines, file, isRoot, keepTail) ==
    LET body == LinesForBody(lines, file, keepTail) IN
    IF isRoot THEN body
    ELSE <<StartLine(file)>>
         \o (IF keepTail THEN body ELSE DropEmptyTail(body))
         \o <<EndLine(file)>>

\* C4 as stated: every output line is one input line or one marker line, and
\* no input line of an expanded file is dropped but a directive line, which
\* its expansion replaces; the blank lines that end an included file are kept.
Cex_C4 ==
    FileReturned =>
        Contents(SplitNL(ret.text))
            = Contents(LinesFor(FileLines(ret.path), ret.path, ret.isRoot, TRUE))

\* C4: every output line is one input line, one marker line or the one empty
\* line that closes a directive's expansion, in order; no input line of an
\* expanded file is dropped but a directive line, which its expansion
\* replaces, and the empty lines that end an included file's text, which are
\* trimmed before its END line.
Thm_C4 ==
    FileReturned =>
        Contents(SplitNL(ret.text))
            = Contents(LinesFor(FileLines(ret.path), ret.path, ret.isRoot, FALSE))

\* an included file that ends in blank lines, itself included with others
Wit_C4 ==
    /\ RootReturned /\ pass = 1
    /\ fs[FooPath].data = <<"a", NL, NL, NL>>
    /\ IsLineOf(TwoSpaces \o <<"a">>, ret.text)
    /\ Len(SplitNL(ret.text)) = 6

(***************************************************************************)
(* C5                                                                      *)
(***************************************************************************)

\* the innermost layer of an error
Cause(err) == err[Len(err)]

\* a call that returns an error returns the empty text with it
ErrorHasNoText == (ret.full /\ ret.err # NoError) => ret.text = <<>>

\* an error returned to processFile or processIncludePath makes that call
\* return an error in turn, with no text; returned to main it ends the run
\* with exit status 1 and nothing on standard output
FailurePropagates ==
    (pc = "run" /\ ret.full /\ ret.err # NoError) =>
        IF stack # <<>>
        THEN /\ stack' = Pop
             /\ ret'.full /\ ret'.err # NoError /\ ret'.text = <<>>
             /\ Cause(ret'.err) = Cause(ret.err)
             /\ stdout' = <<>>
        ELSE pc' = "done" /\ exitCode' = 1 /\ stdout' = <<>>

\* nothing is printed while the expansion runs
SilentWhileRunning == pc = "run" => stdout = <<>>

\* A run that ended on an include failure: exit status 1, nothing printed;
\* a missing path is named by the error's cause, and the layer around it
\* names the file that holds the directive and the directive's argument.
FailedRunPrintsNothing ==
    (pc = "done" /\ Len(argv) = 1 /\ Len(fatal) > 1) =>
        /\ exitCode = 1
        /\ stdout = <<>>
        /\ Cause(fatal).kind \in {"notfound", "open", "read", "readdir"}
        /\ Cause(fatal).kind = "notfound" =>
              LET holder == fatal[Len(fatal) - 1] IN
              /\ holder.kind = "include"
              /\ ~Exists(Cause(fatal).path)
              /\ Cause(fatal).path = Join(Dir(holder.path), holder.incl)
              /\ \E i \in 1..Len(FileLines(holder.path)) :
                    /\ DirectiveLine(FileLines(holder.path)[i])
                    /\ DirectiveArg(FileLines(holder.path)[i]) = holder.incl

\* C5: no partial output on failure: when an include target does not exist or
\* cannot be opened or read, every enclosing call returns an error with empty
\* text, the error names the missing path and the file holding the directive,
\* the run ends with a non-zero exit status and nothing is written to
\* standard output, whatever text had been accumulated.
Thm_C5 ==
    /\ []ErrorHasNoText
    /\ []SilentWhileRunning
    /\ []FailedRunPrintsNothing
    /\ [][FailurePropagates]_vars

\* a missing target two includes deep, returned to a call that has text
Wit_C5 ==
    /\ InProcessFile("include") /\ ret.full /\ Depth = 2
    /\ Len(ret.err) = 1 /\ Cause(ret.err).kind = "notfound"
    /\ Top.output # <<>> /\ stack[1].output # <<>>

(***************************************************************************)
(* C6                                                                      *)
(***************************************************************************)

\* processIncludePath has just returned text for a directory
DirReturned ==
    /\ ret.full /\ ret.fn = "processIncludePath" /\ ret.err = NoError
    /\ IsDir(ret.path)

\* the text returned for a directory is the expansions of the regular files
\* below it, one after another in the order of their paths, each file once
WalkConcatenates ==
    DirReturned =>
        Contents(SplitNL(ret.text))
            = Contents(LinesForFiles(SortPaths(FilesBelow(ret.path)), FALSE))

IsSuffix(s, t) == Len(s) <= Len(t) /\ SubSeq(t, Len(t) - Len(s) + 1, Len(t)) = s

\* the files a walk has still to visit: those at and below the paths it has
\* left, in the walk's order
RECURSIVE Pending(_)
Pending(todo) ==
    IF todo = <<>> THEN <<>>
    ELSE (IF IsDir(Head(todo)) THEN SortPaths(FilesBelow(Head(todo)))
          ELSE <<Head(todo)>>) \o Pending(Tail(todo))

\* the files still to be visited are the last ones of that order, and every
\* file before them has been expanded: its START line is in the text so far
WalkInOrder ==
    \A i \in 1..Len(stack) :
        (stack[i].fn = "processIncludePath" /\ stack[i].pc \in {"walk", "walkfile"}) =>
            LET all  == SortPaths(FilesBelow(stack[i].path))
                left == Pending(stack[i].todo)
            IN  /\ IsSuffix(left, all)
                /\ \A k \in 1..(Len(all) - Len(left)) :
                      IsLineOf(StartLine(all[k]), stack[i].output)

\* the first expansion that fails, or directory that cannot be listed, ends
\* the walk: the error is returned at once, without text, and the files left
\* are not expanded
WalkStopsAtError ==
    (\/ InProcessIncludePath("walkfile") /\ ret.full /\ ret.err # NoError
     \/ AtWalkDir /\ ~CanOpen(Head(Top.todo))) =>
        /\ stack' = Pop
        /\ ret'.full /\ ret'.err # NoError /\ ret'.text = <<>>

\* C6: for a directory the include resolver returns the concatenation, in
\* traversal order, of the expansion of every non-directory entry of the tree
\* below it, each visited once, directories adding no text; the order is that
\* of the sorted names; the first expansion error ends the traversal.
Thm_C6 == []WalkConcatenates /\ []WalkInOrder /\ [][WalkStopsAtError]_vars

\* a walk over parts: a.yaml, sub/b.yaml and z.yaml, in that order
Wit_C6 ==
    /\ DirReturned /\ Cardinality(FilesBelow(ret.path)) = 3
    /\ LET lines == SplitNL(ret.text)
           a == Parts \o <<N("a.yaml")>>
           b == Parts \o <<N("sub"), N("b.yaml")>>
           z == Parts \o <<N("z.yaml")>>
       IN  \E i, j, k \in 1..Len(lines) :
              /\ i < j /\ j < k
              /\ lines[i] = StartWord \o RootRelative(a)
              /\ lines[j] = StartWord \o RootRelative(b)
              /\ lines[k] = StartWord \o RootRelative(z)

\* a walk stopped by a failure in sub/b.yaml while z.yaml is still to come
Wit_C6Stop ==
    /\ InProcessIncludePath("walkfile") /\ ret.full /\ ret.err # NoError
    /\ Len(Top.todo) = 2

(***************************************************************************)
(* C8                                                                      *)
(***************************************************************************)

\* processFile is about to handle a directive line without a path
AtEmptyDirective == InProcessFile("scan") /\ AtLine /\ EmptyDirectiveLine(Line)

\* handling it logs one warning, adds nothing to the output, calls nothing
\* and moves on to the next line
EmptyDirectiveStep ==
    AtEmptyDirective =>
        /\ warnings' = warnings + 1
        /\ Len(stack') = Len(stack)
        /\ SubSeq(stack', 1, Len(stack) - 1) = Pop
        /\ stack'[Len(stack)].fn = "processFile"
        /\ stack'[Len(stack)].pc = "scan"
        /\ stack'[Len(stack)].pos = Top.pos + 1
        /\ stack'[Len(stack)].output = Top.output
        /\ stdout' = stdout /\ ret' = ret /\ pc' = pc

HasPath(line) == ~EmptyDirectiveLine(line)

\* a file's expansion is what it would be with the file's directive lines
\* without a path taken out
AsIfAbsent ==
    FileReturned =>
        Contents(SplitNL(ret.text))
            = Contents(LinesFor(SelectSeq(FileLines(ret.path), HasPath),
                                ret.path, ret.isRoot, FALSE))

\* warnings are logged for nothing else: a run over a root file whose only
\* directives have no path logs one warning for each of them
OneWarningEach ==
    (RootReturned /\ NoDirectiveIn(ret.path) = FALSE
       /\ \A i \in 1..Len(FileLines(ret.path)) :
             DirectiveLine(FileLines(ret.path)[i])
                => EmptyDirectiveLine(FileLines(ret.path)[i])) =>
        warnings = Cardinality({ i \in 1..Len(FileLines(ret.path)) :
                                   EmptyDirectiveLine(FileLines(ret.path)[i]) })

\* C8: a directive whose path argument is empty after trimming is no error:
\* each time such a line is processed it produces no output line, logs
\* exactly one warning and calls no include resolver, and the lines before
\* and after it come out as they would if the line were absent.
Thm_C8 == []AsIfAbsent /\ []OneWarningEach /\ [][EmptyDirectiveStep]_vars

\* the root "#include:", x, "\t#include:  \r" has returned x alone, with two
\* warnings logged
Wit_C8 ==
    /\ RootReturned /\ pass = 1
    /\ warnings = 2
    /\ Len(FileLines(ret.path)) = 3
    /\ ret.text = <<"x", NL>>

(***************************************************************************)
(* C9                                                                      *)
(***************************************************************************)

\* no line of the output of a successful run is a directive line
NoDirectiveInOutput ==
    Succeeded =>
        \A i \in 1..Len(SplitNL(stdout)) : ~DirectiveLine(SplitNL(stdout)[i])

\* the second run has ended: it expanded the first run's output
Reexpanded == Succeeded /\ pass = 2

\* C9 as stated: the output of a successful run holds no directive line, and
\* expanding that output again returns it unchanged.
Cex_C9 == NoDirectiveInOutput /\ (Reexpanded => stdout = prev)

EndsInCR(line) == line # <<>> /\ line[Len(line)] = CR

\* each line less one "\r" at its end, if it has one
DropOneCR(lines) ==
    [i \in 1..Len(lines) |->
        IF EndsInCR(lines[i]) THEN SubSeq(lines[i], 1, Len(lines[i]) - 1)
        ELSE lines[i]]

\* C9: the output of a successful run holds no directive line; expanding it
\* again returns its lines in order, each less one "\r" at its end if it has
\* one: the output is returned unchanged when none of its lines ends in "\r".
Thm_C9 ==
    /\ NoDirectiveInOutput
    /\ Reexpanded =>
          /\ stdout = Unlines(DropOneCR(SplitNL(prev)))
          /\ (\A i \in 1..Len(SplitNL(prev)) : ~EndsInCR(SplitNL(prev)[i]))
                => stdout = prev

\* the output of a run with an indented include, expanded again unchanged
Wit_C9 ==
    /\ Reexpanded
    /\ stdout = prev
    /\ \E i \in 1..Len(SplitNL(prev)) :
          HasPrefix(SplitNL(prev)[i], TwoSpaces \o StartWord)

(***************************************************************************)
(* C10                                                                     *)
(***************************************************************************)

\* the processFile calls active on the stack are on different files
ActiveFilesDiffer ==
    \A i, j \in 1..Len(stack) :
        (i < j /\ stack[i].fn = "processFile" /\ stack[j].fn = "processFile")
            => Abs(stack[i].path) # Abs(stack[j].path)

\* C10: the recursion between processFile and processIncludePath ends for
\* every finite tree, also when a file includes itself or two files include
\* each other, because every recursive call is on a file different from those
\* of the calls active on the stack: the run is never ended by the runtime.
Cex_C10 == ActiveFilesDiffer /\ pc # "aborted"
====
